---- MODULE Spec2Model ----
(***************************************************************************)
(* Terminal clipboard contribution (copy-on-selection arbitration, paste)  *)
(* and terminal find widget (override lock consumer, incremental search).  *)
(*                                                                         *)
(*   clipboard: src/vs/workbench/contrib/terminalContrib/clipboard/        *)
(*              browser/terminal.clipboard.contribution.ts                 *)
(*   find:      src/vs/workbench/contrib/terminalContrib/find/browser/     *)
(*              terminalFindWidget.ts                                      *)
(*                                                                         *)
(* Everything runs on one event loop: a handler runs to its next await,    *)
(* so every action below is one synchronous stretch of one handler.        *)
(***************************************************************************)
EXTENDS Integers, Sequences, FiniteSets, TLC

\* ------------------------------------------------------------- bounds
\* Handles (IDisposable objects returned by overrideCopyOnSelection) that
\* are referenced at the same time: one slot is the find widget's field,
\* the others are kept by other callers.
MaxHandles == 2
\* paste()/pasteSelection() calls that are in flight at the same time.
MaxPastes == 2
\* Searches issued to the search engine and not yet run.
MaxSearches == 2

\* ------------------------------------------------------ input domains
\* Selection texts: one of a single line, one of two lines.
MultiLineTexts == {"two\nlines"}
Texts == {"hello"} \cup MultiLineTexts
Rows == {1, 2}
\* IBufferRange values the terminal reports for a selection.
BufferRanges ==
    { [start |-> [x |-> 1, y |-> r], end |-> [x |-> 5, y |-> r]] : r \in Rows }
NoSelection == [text |-> "", range |-> <<>>]
Selections == { [text |-> t, range |-> <<r>>] : t \in Texts, r \in BufferRanges }
Queries == {"", "hello"}
ModifiedText == "modified"
\* What shouldPasteTerminalText resolves to: true, false or {modifiedText}.
GuardResults == { <<"true">>, <<"false">>, <<"object", ModifiedText>> }
HandleIds == 1..MaxHandles

\* ---------------------------------------------------------- JS values
Undefined == <<"undefined">>
Str(s) == <<"string", s>>

VARIABLES
    xterm,                      \* _xterm is set (xtermReady has run)
    overrideCopySelection,      \* "unset" (undefined) | "true" | "false"
    previousSelection,          \* Undefined | Str(text)
    previousSelectionPosition,  \* Undefined | <<"range", IBufferRange>>
    copyOnSelection,            \* configuration value TerminalSettingId.CopyOnSelection
    selection,                  \* the terminal's selection: NoSelection or [text, range]
    pastes,                     \* in-flight paste()/pasteSelection() calls, oldest first
    called,                     \* handle id -> the handle's function has run
    extHandles,                 \* handle ids kept by callers other than the find widget
    widget,                     \* the TerminalFindWidget has been constructed
    widgetDisposable,           \* its _overrideCopyOnSelectionDisposable: 0 (undefined) or a handle id
    findInputFocused,           \* context key TerminalContextKeys.findInputFocus
    findWidgetFocused,          \* context key TerminalContextKeys.findFocus
    domFocus,                   \* the element holding DOM focus
    inputValue,                 \* the find input's text
    searches,                   \* searches issued and not yet run by the search engine
    findWidgetVisible,          \* context key TerminalContextKeys.findVisible
    buttons,                    \* updateButtons(foundMatch): the value applied last
    mouse,                      \* what a right-click has started and is not over yet
    once,                       \* the find widget's one-shot selection listeners: how many are registered
    last                        \* the handler that ran last, its arguments and its effects

clipVars == <<xterm, overrideCopySelection, previousSelection, previousSelectionPosition,
              copyOnSelection, selection, pastes>>
handleVars == <<called, extHandles, widgetDisposable>>
findVars == <<widget, findInputFocused, findWidgetFocused, domFocus, inputValue, searches>>
uiVars == <<findWidgetVisible, buttons, mouse, once>>
vars == <<clipVars, handleVars, findVars, uiVars, last>>

\* ------------------------------------------------------------ effects
\* Calls a handler makes on its collaborators, in call order.
Copy(format, text) == <<"copySelection", format, text>>
Throw == <<"throw">>
ListenerError == <<"listenerError">>
Focus == <<"focus">>
WillPaste(t) == <<"onWillPaste", t>>
Write(t) == <<"paste", t>>
DidPaste(t) == <<"onDidPaste", t>>
ReadText(ch) == <<"readText", ch>>
FindPrevious(q, incremental) == <<"findPrevious", q, incremental>>
ClearActive == <<"clearActiveSearchDecoration">>
FindNext(q) == <<"findNext", q>>
ClearAll == <<"clearSearchDecorations">>
ClearSelection == <<"clearSelection">>
Notification == <<"notificationService.info">>

\* `fired` counts the find widget's one-shot selection listeners that ran in
\* the handler (each calls clearActiveSearchDecoration).
Did(op, arg, out) == [op |-> op, arg |-> arg, out |-> out, fired |-> 0]


\* ------------------------------------------------- terminal surface
\* xterm.raw.hasSelection(), getSelection(), getSelectionPosition()
HasSelection(sel) == sel.range # <<>>
GetSelection(sel) == Str(sel.text)
GetSelectionPosition(sel) ==
    IF sel.range = <<>> THEN Undefined ELSE <<"range", sel.range[1]>>

\* Mutant: the rows of the range are left out of the text.
JSONStringifyColumns(v) ==
    IF v = Undefined
    THEN Undefined
    ELSE <<"json", <<"{start:{x:", v[2].start.x, "},end:{x:", v[2].end.x, "}}">> >>

\* JSON.stringify of undefined is undefined; of a range it is the text of
\* its four coordinates in key order.
JSONStringify(v) ==
    IF v = Undefined
    THEN Undefined
    ELSE <<"json", <<"{start:{x:", v[2].start.x, ",y:", v[2].start.y,
                     "},end:{x:", v[2].end.x, ",y:", v[2].end.y, "}}">> >>

\* clipboardService.readText(channel): the two channels hold different text.
ClipboardContent(ch) ==
    IF ch = "selection" THEN "selection-clipboard" ELSE "default-clipboard"

\* ---------------------------------------------------- override lock
\* Mutant: the guard against a second override is missing, the value is
\* overwritten.
OverrideOverwrites(lock, value) == [threw |-> FALSE, lock |-> value]

\* overrideCopyOnSelection(value), up to the return: throws when the lock
\* is already set, else stores the value.
OverrideCopyOnSelection(lock, value) ==
    IF lock # "unset"
    THEN [threw |-> TRUE, lock |-> lock]
    ELSE [threw |-> FALSE, lock |-> value]

\* Mutant: the disposable's function leaves the field alone.
ClearOverrideKeeps(lock) == lock

\* The function wrapped by the returned disposable.
ClearOverride(lock) == "unset"

\* toDisposable(fn).dispose(): fn runs on the first dispose() only.
Dispose(isCalled, lock) ==
    IF isCalled THEN lock ELSE ClearOverride(lock)

\* A handle id that nothing in `refs` refers to (the smallest one).
NewHandle(refs) ==
    CHOOSE h \in HandleIds \ refs : \A k \in HandleIds \ refs : h <= k

\* The find widget's field is assigned the new handle h; the handle the field
\* held before is referenced by nothing any more.
WidgetTakes(h) ==
    [k \in HandleIds |-> IF k \in extHandles THEN called[k] ELSE FALSE]

\* ------------------------------------------- copy on selection handler
\* Mutant: the handler does not look at the override.
OnDidChangeSelectionNoOverride(cfg, lock, sel, prevText, prevPos) ==
    LET skip == [copied |-> FALSE, text |-> prevText, pos |-> prevPos] IN
    IF cfg
    THEN IF /\ GetSelection(sel) = prevText
            /\ JSONStringify(GetSelectionPosition(sel)) = JSONStringify(prevPos)
         THEN skip
         ELSE IF HasSelection(sel)
              THEN [copied |-> TRUE, text |-> GetSelection(sel),
                    pos |-> GetSelectionPosition(sel)]
              ELSE skip
    ELSE skip

\* Mutant: the snapshot is taken whenever there is a selection, copied or not.
OnDidChangeSelectionSnapshotsAlways(cfg, lock, sel, prevText, prevPos) ==
    LET r == OnDidChangeSelectionNoOverride(cfg, "unset", sel, prevText, prevPos) IN
    [copied |-> r.copied /\ lock # "false",
     text |-> IF HasSelection(sel) THEN GetSelection(sel) ELSE prevText,
     pos |-> IF HasSelection(sel) THEN GetSelectionPosition(sel) ELSE prevPos]

\* Mutant: an event without a selection clears the snapshot.
OnDidChangeSelectionClears(cfg, lock, sel, prevText, prevPos) ==
    LET r == OnDidChangeSelectionNoOverride(cfg, "unset", sel, prevText, prevPos) IN
    IF cfg /\ lock # "false"
    THEN IF HasSelection(sel) THEN r
         ELSE [copied |-> FALSE, text |-> Undefined, pos |-> Undefined]
    ELSE [copied |-> FALSE, text |-> prevText, pos |-> prevPos]

\* The xterm.onDidChangeSelection listener registered by xtermReady:
\* whether it copies, and the snapshot it leaves.
OnDidChangeSelection(cfg, lock, sel, prevText, prevPos) ==
    LET skip == [copied |-> FALSE, text |-> prevText, pos |-> prevPos] IN
    IF cfg
    THEN IF lock = "false"
         THEN skip
         ELSE IF /\ GetSelection(sel) = prevText
                 /\ JSONStringify(GetSelectionPosition(sel)) = JSONStringify(prevPos)
              THEN skip
              ELSE IF HasSelection(sel)
                   THEN [copied |-> TRUE, text |-> GetSelection(sel),
                         pos |-> GetSelectionPosition(sel)]
                   ELSE skip
    ELSE skip

\* The terminal's selection becomes `sel` and the selection-changed event
\* is delivered; `lock` is the override at delivery. Every listener the find
\* widget made with Event.once(xterm.onDidChangeSelection) runs; the callers
\* say how many are registered afterwards (running removes them).
FireSelectionChanged(sel, lock, op, arg, before) ==
    LET r == OnDidChangeSelection(copyOnSelection, lock, sel,
                                  previousSelection, previousSelectionPosition) IN
    /\ selection' = sel
    /\ previousSelection' = r.text
    /\ previousSelectionPosition' = r.pos
    /\ last' = [Did(op, arg,
                    before \o (IF r.copied THEN <<Copy("text", sel.text)>> ELSE <<>>))
                EXCEPT !.fired = once]

\* xtermReady(xterm)
XtermReady ==
    /\ ~xterm
    /\ xterm' = TRUE
    /\ last' = Did("xtermReady", <<>>, <<>>)
    /\ UNCHANGED <<overrideCopySelection, previousSelection, previousSelectionPosition,
                   copyOnSelection, selection, pastes, handleVars, findVars, uiVars>>

\* The configuration service changes the copy-on-selection setting.
SetCopyOnSelection(b) ==
    /\ b # copyOnSelection
    /\ copyOnSelection' = b
    /\ last' = Did("configuration", <<>>, <<>>)
    /\ UNCHANGED <<xterm, overrideCopySelection, previousSelection,
                   previousSelectionPosition, selection, pastes, handleVars, findVars, uiVars>>

\* The user selects `sel` (or clears the selection), or the terminal
\* re-announces the selection it already has.
SelectionChanged(sel) ==
    /\ xterm
    /\ FireSelectionChanged(sel, overrideCopySelection, "selectionChanged", <<"user">>, <<>>)
    /\ once' = 0
    /\ UNCHANGED <<xterm, overrideCopySelection, copyOnSelection, pastes,
                   handleVars, findVars, findWidgetVisible, buttons, mouse>>

\* copySelection(asHtml, command): the command, or a copy-as-HTML request.
CopySelection(asHtml) ==
    /\ asHtml => xterm
    /\ last' = Did("copySelection", <<>>,
                   IF xterm
                   THEN <<Copy(IF asHtml THEN "html" ELSE "text", selection.text)>>
                   ELSE <<>>)
    /\ UNCHANGED <<clipVars, handleVars, findVars, uiVars>>


\* ------------------------------------------------ other lock callers
\* Another component calls overrideCopyOnSelection(value) and keeps the
\* returned disposable.
ExtOverride(value) ==
    LET r == OverrideCopyOnSelection(overrideCopySelection, value)
        h == NewHandle(extHandles \cup {widgetDisposable})
    IN
    /\ r.threw \/ Cardinality(extHandles) < MaxHandles - 1
    /\ overrideCopySelection' = r.lock
    /\ IF r.threw
       THEN UNCHANGED <<called, extHandles>>
       ELSE /\ extHandles' = extHandles \cup {h}
            /\ called' = [called EXCEPT ![h] = FALSE]
    /\ last' = Did("overrideCopyOnSelection", <<value>>, IF r.threw THEN <<Throw>> ELSE <<>>)
    /\ UNCHANGED <<xterm, previousSelection, previousSelectionPosition, copyOnSelection,
                   selection, pastes, widgetDisposable, findVars, uiVars>>

\* That component calls dispose() on a disposable it keeps, for the first
\* time or again.
ExtDispose(h) ==
    /\ h \in extHandles
    /\ overrideCopySelection' = Dispose(called[h], overrideCopySelection)
    /\ called' = [called EXCEPT ![h] = TRUE]
    /\ last' = Did("dispose", <<IF called[h] THEN "again" ELSE "first">>, <<>>)
    /\ UNCHANGED <<xterm, previousSelection, previousSelectionPosition, copyOnSelection,
                   selection, pastes, extHandles, widgetDisposable, findVars, uiVars>>

\* That component drops a disposable it has disposed of.
ExtDrop(h) ==
    /\ h \in extHandles
    /\ called[h]
    /\ extHandles' = extHandles \ {h}
    /\ called' = [called EXCEPT ![h] = FALSE]
    /\ last' = Did("drop", <<>>, <<>>)
    /\ UNCHANGED <<clipVars, widgetDisposable, findVars, uiVars>>


\* ------------------------------------------ find widget: focus trackers
\* The widget has two focus trackers: one on the widget's DOM node (the
\* input, the toggles and the buttons), one on the find input alone.
InWidget(el) == el \in {"findInput", "findButton"}

\* _onFocusTrackerFocus(): the widget's node gains focus. The override is
\* requested; when that throws the handler ends before the context key.
OnFocusTrackerFocus(lock, widgetFocused) ==
    LET r == OverrideCopyOnSelection(lock, "false") IN
    [lock |-> r.lock, acquired |-> ~r.threw,
     widgetFocused |-> IF r.threw THEN widgetFocused ELSE TRUE,
     out |-> IF r.threw THEN <<Throw>> ELSE <<>>]

\* _onFocusTrackerBlur(): the widget's node loses focus.
OnFocusTrackerBlur(attached) ==
    [widgetFocused |-> FALSE, out |-> IF attached THEN <<ClearActive>> ELSE <<>>]

\* Mutant: the input's blur handler leaves the context key set.
OnFindInputFocusTrackerBlurKeeps == TRUE

\* _onFindInputFocusTrackerFocus() and _onFindInputFocusTrackerBlur()
OnFindInputFocusTrackerFocus == TRUE
OnFindInputFocusTrackerBlur == FALSE

\* DOM focus goes from element `from` to element `to`: the trackers that
\* lose it run their blur handlers, those that gain it their focus handlers.
FocusMoved(from, to, lock) ==
    LET blurW == InWidget(from) /\ ~InWidget(to)
        focusW == ~InWidget(from) /\ InWidget(to)
        b == OnFocusTrackerBlur(xterm)
        f == OnFocusTrackerFocus(lock, findWidgetFocused)
    IN
    [lock |-> IF widget /\ focusW THEN f.lock ELSE lock,
     acquired |-> widget /\ focusW /\ f.acquired,
     widgetFocused |-> IF widget /\ blurW THEN b.widgetFocused
                       ELSE IF widget /\ focusW THEN f.widgetFocused
                       ELSE findWidgetFocused,
     inputFocused |-> IF widget /\ from = "findInput" /\ to # "findInput"
                      THEN OnFindInputFocusTrackerBlur
                      ELSE IF widget /\ from # "findInput" /\ to = "findInput"
                      THEN OnFindInputFocusTrackerFocus
                      ELSE findInputFocused,
     out |-> IF widget /\ blurW THEN b.out
             ELSE IF widget /\ focusW THEN f.out
             ELSE <<>>]

\* new TerminalFindWidget(instance, ...): from now on its onWillPaste
\* listener is subscribed.
CreateWidget ==
    /\ ~widget
    /\ widget' = TRUE
    /\ last' = Did("createWidget", <<>>, <<>>)
    /\ UNCHANGED <<clipVars, handleVars, findInputFocused, findWidgetFocused,
                   domFocus, inputValue, searches, uiVars>>

\* The user moves focus to the terminal, to the find input, or to another
\* control of the find widget.
MoveFocus(to) ==
    LET m == FocusMoved(domFocus, to, overrideCopySelection)
        h == NewHandle(extHandles)
    IN
    /\ to # domFocus
    /\ InWidget(to) => widget
    /\ domFocus' = to
    /\ overrideCopySelection' = m.lock
    /\ findWidgetFocused' = m.widgetFocused
    /\ findInputFocused' = m.inputFocused
    /\ IF m.acquired
       THEN /\ widgetDisposable' = h
            /\ called' = WidgetTakes(h)
       ELSE UNCHANGED <<widgetDisposable, called>>
    /\ last' = Did("focus", <<domFocus, to>>, m.out)
    /\ UNCHANGED <<xterm, previousSelection, previousSelectionPosition, copyOnSelection,
                   selection, pastes, extHandles, widget, inputValue, searches, uiVars>>


\* ---------------------------------------------------------- pasting
\* Mutant: both entry points read the default channel.
ReadChannelDefault(kind) == "default"

\* The channel each entry point passes to clipboardService.readText.
ReadChannel(kind) == IF kind = "pasteSelection" THEN "selection" ELSE "default"

NewPaste(kind) ==
    [kind |-> kind, channel |-> ReadChannel(kind), pc |-> "readText", text |-> ""]

RemoveAt(seq, i) == SubSeq(seq, 1, i - 1) \o SubSeq(seq, i + 1, Len(seq))

\* paste(), up to the await of readText()
Paste ==
    /\ Len(pastes) < MaxPastes
    /\ pastes' = Append(pastes, NewPaste("paste"))
    /\ last' = Did("paste", <<"paste">>, <<ReadText(ReadChannel("paste"))>>)
    /\ UNCHANGED <<xterm, overrideCopySelection, previousSelection,
                   previousSelectionPosition, copyOnSelection, selection,
                   handleVars, findVars, uiVars>>

\* pasteSelection(), up to the await of readText('selection'): the override
\* is requested first and the disposable it returns is not kept.
PasteSelection ==
    LET r == OverrideCopyOnSelection(overrideCopySelection, "false") IN
    /\ r.threw \/ Len(pastes) < MaxPastes
    /\ overrideCopySelection' = r.lock
    /\ pastes' = IF r.threw THEN pastes ELSE Append(pastes, NewPaste("pasteSelection"))
    /\ last' = Did("paste", <<"pasteSelection">>,
                   IF r.threw THEN <<Throw>>
                   ELSE <<ReadText(ReadChannel("pasteSelection"))>>)
    /\ UNCHANGED <<xterm, previousSelection, previousSelectionPosition, copyOnSelection,
                   selection, handleVars, findVars, uiVars>>

\* readText resolves and _paste(value) runs up to the await of the paste
\* guard; without a terminal it returns at once.
ReadTextResolved(i) ==
    /\ i \in 1..Len(pastes)
    /\ pastes[i].pc = "readText"
    /\ LET p == pastes[i]
           value == ClipboardContent(p.channel)
       IN
       IF ~xterm
       THEN /\ pastes' = RemoveAt(pastes, i)
            /\ last' = Did("pasteDone", <<p.kind, p.channel, value, "noTerminal">>, <<>>)
       ELSE /\ pastes' = [pastes EXCEPT ![i] = [p EXCEPT !.pc = "guard", !.text = value]]
            /\ last' = Did("pasteGuard", <<p.kind, p.channel, value>>, <<>>)
    /\ UNCHANGED <<xterm, overrideCopySelection, previousSelection,
                   previousSelectionPosition, copyOnSelection, selection,
                   handleVars, findVars, uiVars>>

\* Mutant: the guard's modified text is not taken over.
CurrentTextOriginal(value, shouldPasteText) == value

\* The text _paste goes on with after the guard has answered.
CurrentText(value, shouldPasteText) ==
    IF shouldPasteText[1] = "object" THEN shouldPasteText[2] ELSE value

\* The find widget's onWillPaste listener. An exception of a listener is
\* caught by the emitter and reported; fire() returns normally.
OnWillPaste(lock) ==
    LET r == OverrideCopyOnSelection(lock, "false") IN
    [lock |-> r.lock, acquired |-> ~r.threw,
     out |-> IF r.threw THEN <<ListenerError>> ELSE <<>>]

\* Mutant: the guard's answer false does not end _paste.
PasteAfterGuardUnchecked(value, shouldPasteText, lock) ==
    LET text == CurrentText(value, shouldPasteText)
        m == FocusMoved(domFocus, "terminal", lock)
        w == OnWillPaste(m.lock)
    IN
    [pasted |-> TRUE,
     lock |-> IF widget THEN w.lock ELSE m.lock,
     acquired |-> widget /\ w.acquired,
     widgetFocused |-> m.widgetFocused, inputFocused |-> m.inputFocused,
     focus |-> "terminal",
     out |-> <<Focus, WillPaste(text)>>
             \o (IF widget THEN w.out ELSE <<>>)
             \o <<Write(text), DidPaste(text)>> \o m.out]

\* Mutant: the text is written before onWillPaste fires.
PasteAfterGuardWriteFirst(value, shouldPasteText, lock) ==
    LET text == CurrentText(value, shouldPasteText)
        m == FocusMoved(domFocus, "terminal", lock)
        w == OnWillPaste(m.lock)
    IN
    IF shouldPasteText = <<"false">>
    THEN [pasted |-> FALSE, lock |-> lock, acquired |-> FALSE,
          widgetFocused |-> findWidgetFocused, inputFocused |-> findInputFocused,
          focus |-> domFocus, out |-> <<>>]
    ELSE [pasted |-> TRUE,
          lock |-> IF widget THEN w.lock ELSE m.lock,
          acquired |-> widget /\ w.acquired,
          widgetFocused |-> m.widgetFocused, inputFocused |-> m.inputFocused,
          focus |-> "terminal",
          out |-> <<Focus, Write(text), WillPaste(text)>>
                  \o (IF widget THEN w.out ELSE <<>>)
                  \o <<DidPaste(text)>> \o m.out]

\* The rest of _paste once the guard has answered: nothing when it said
\* false, else focus, onWillPaste, the write, onDidPaste.
PasteAfterGuard(value, shouldPasteText, lock) ==
    LET text == CurrentText(value, shouldPasteText)
        m == FocusMoved(domFocus, "terminal", lock)
        w == OnWillPaste(m.lock)
    IN
    IF shouldPasteText = <<"false">>
    THEN [pasted |-> FALSE, lock |-> lock, acquired |-> FALSE,
          widgetFocused |-> findWidgetFocused, inputFocused |-> findInputFocused,
          focus |-> domFocus, out |-> <<>>]
    ELSE [pasted |-> TRUE,
          lock |-> IF widget THEN w.lock ELSE m.lock,
          acquired |-> widget /\ w.acquired,
          widgetFocused |-> m.widgetFocused, inputFocused |-> m.inputFocused,
          focus |-> "terminal",
          out |-> <<Focus, WillPaste(text)>>
                  \o (IF widget THEN w.out ELSE <<>>)
                  \o <<Write(text), DidPaste(text)>> \o m.out]

\* The paste guard answers and _paste runs to its end.
GuardResolved(i, shouldPasteText) ==
    /\ i \in 1..Len(pastes)
    /\ pastes[i].pc = "guard"
    /\ LET p == pastes[i]
           r == PasteAfterGuard(p.text, shouldPasteText, overrideCopySelection)
           h == NewHandle(extHandles)
       IN
       /\ pastes' = RemoveAt(pastes, i)
       /\ overrideCopySelection' = r.lock
       /\ domFocus' = r.focus
       /\ findWidgetFocused' = r.widgetFocused
       /\ findInputFocused' = r.inputFocused
       /\ IF r.acquired
          THEN /\ widgetDisposable' = h
               /\ called' = WidgetTakes(h)
          ELSE UNCHANGED <<widgetDisposable, called>>
       /\ last' = Did("pasteDone", <<p.kind, p.channel, p.text, shouldPasteText[1]>>, r.out)
    /\ UNCHANGED <<xterm, previousSelection, previousSelectionPosition, copyOnSelection,
                   selection, extHandles, widget, inputValue, searches, uiVars>>


\* ------------------------------------------------ find widget: search
\* A search handed to the search engine: the query, the incremental option
\* and what the caller's continuation does with foundMatch: "nothing"
\* (find), "updateButtons" (_onInputChanged) or "updateButtonsAndListen"
\* (reveal, which registers a one-shot listener of its own).
Search(q, incremental, then) == [query |-> q, incremental |-> incremental, then |-> then]

\* Mutant: reveal()'s continuation registers no listener of its own.
RegistersOne(then) == 1

\* The one-shot listeners registered when a search resolves: one by
\* _findPreviousWithEvent / _findNextWithEvent, one more by reveal().
Registers(then) == IF then = "updateButtonsAndListen" THEN 2 ELSE 1

\* _onInputChanged(): the user has edited the find input. With a terminal
\* attached the widget's disposable is disposed of and an incremental
\* findPrevious is issued.
InputChanged(q) ==
    /\ widget
    /\ domFocus = "findInput"
    /\ q # inputValue
    /\ xterm => Len(searches) < MaxSearches
    /\ inputValue' = q
    /\ IF xterm /\ widgetDisposable # 0
       THEN /\ overrideCopySelection' =
                   Dispose(called[widgetDisposable], overrideCopySelection)
            /\ called' = [called EXCEPT ![widgetDisposable] = TRUE]
       ELSE UNCHANGED <<overrideCopySelection, called>>
    /\ searches' = IF xterm
                   THEN Append(searches, Search(q, TRUE, "updateButtons"))
                   ELSE searches
    /\ last' = Did("inputChanged", <<q>>,
                   IF xterm THEN <<FindPrevious(q, TRUE)>> ELSE <<>>)
    /\ UNCHANGED <<xterm, previousSelection, previousSelectionPosition, copyOnSelection,
                   selection, pastes, extHandles, widgetDisposable, widget,
                   findInputFocused, findWidgetFocused, domFocus, uiVars>>

\* The search engine runs the oldest search: a match becomes the terminal's
\* selection, no match (always so for the empty query) clears the selection;
\* either way the selection-changed event is delivered. Then the promise
\* resolves with foundMatch and the caller's continuation runs.
SearchRuns(found, r) ==
    /\ searches # <<>>
    /\ found => Head(searches).query # ""
    /\ searches' = Tail(searches)
    /\ FireSelectionChanged(IF found
                            THEN [text |-> Head(searches).query, range |-> <<r>>]
                            ELSE NoSelection,
                            overrideCopySelection, "selectionChanged",
                            <<"search">>, <<>>)
    /\ buttons' = IF Head(searches).then = "nothing" THEN buttons ELSE found
    /\ once' = Registers(Head(searches).then)
    /\ UNCHANGED <<xterm, overrideCopySelection, copyOnSelection, pastes, handleVars,
                   widget, findInputFocused, findWidgetFocused, domFocus, inputValue,
                   findWidgetVisible, mouse>>

\* Mutant: find() skips the search when the query is empty, as reveal() does.
FindCallsSkipEmpty(attached, previous, update, q) ==
    IF ~attached \/ q = "" THEN <<>>
    ELSE IF previous THEN <<FindPrevious(q, update)>>
    ELSE <<FindNext(q)>>

\* find(previous, update): the calls it makes on the search engine. Without
\* a terminal it returns at once; else findPrevious (with the incremental
\* option it was given) or findNext, with the input's value whatever it is.
FindCalls(attached, previous, update, q) ==
    IF ~attached THEN <<>>
    ELSE IF previous THEN <<FindPrevious(q, update)>>
    ELSE <<FindNext(q)>>

\* find(previous, update): the find-next and find-previous commands, and the
\* theme and colour-configuration listeners of a visible widget.
Find(previous, update) ==
    LET out == FindCalls(xterm, previous, update, inputValue) IN
    /\ widget
    /\ xterm => Len(searches) < MaxSearches
    /\ searches' = IF out = <<>> THEN searches
                   ELSE Append(searches, Search(inputValue, previous /\ update, "nothing"))
    /\ last' = Did("find", <<previous, update, inputValue>>, out)
    /\ UNCHANGED <<clipVars, handleVars, widget, findInputFocused, findWidgetFocused,
                   domFocus, inputValue, uiVars>>

\* selection.includes('\n')
IncludesLineBreak(t) == t \in MultiLineTexts

\* Mutant: a selection of several lines seeds the input too.
InitialInputAnySelection(sel) == IF HasSelection(sel) THEN Str(sel.text) ELSE Undefined

\* The text show() and reveal() seed the input with: the terminal's
\* selection when there is one and it has no line break.
InitialInput(sel) ==
    IF HasSelection(sel) /\ ~IncludesLineBreak(sel.text) THEN Str(sel.text) ELSE Undefined

\* show(): the base class seeds the input and shows the widget, then the
\* context key is set.
Show ==
    LET initialInput == InitialInput(selection) IN
    /\ widget
    /\ inputValue' = IF initialInput = Undefined THEN inputValue ELSE initialInput[2]
    /\ findWidgetVisible' = TRUE
    /\ last' = Did("show", <<>>, <<>>)
    /\ UNCHANGED <<clipVars, handleVars, widget, findInputFocused, findWidgetFocused,
                   domFocus, searches, buttons, mouse, once>>

\* reveal(): with a terminal and a non-empty query an incremental
\* findPrevious is issued, whose result goes to updateButtons; the buttons
\* are disabled at once; the base class seeds the input and shows the widget.
Reveal ==
    LET initialInput == InitialInput(selection)
        q == IF initialInput = Undefined THEN inputValue ELSE initialInput[2]
        searching == xterm /\ q # ""
    IN
    /\ widget
    /\ searching => Len(searches) < MaxSearches
    /\ searches' = IF searching
                   THEN Append(searches, Search(q, TRUE, "updateButtonsAndListen"))
                   ELSE searches
    /\ buttons' = FALSE
    /\ inputValue' = q
    /\ findWidgetVisible' = TRUE
    /\ last' = Did("reveal", <<q>>, IF searching THEN <<FindPrevious(q, TRUE)>> ELSE <<>>)
    /\ UNCHANGED <<clipVars, handleVars, widget, findInputFocused, findWidgetFocused,
                   domFocus, mouse, once>>

\* Mutant: hide() clears the active decoration only.
HideCallsActiveOnly(attached) ==
    [visible |-> FALSE,
     out |-> <<Focus>> \o (IF attached THEN <<ClearActive>> ELSE <<>>)]

\* hide(), after the base class has hidden the widget: what it leaves in the
\* context key and the calls it makes.
HideCalls(attached) ==
    [visible |-> FALSE,
     out |-> <<Focus>> \o (IF attached THEN <<ClearAll>> ELSE <<>>)]

\* hide(): the terminal takes the focus, so the trackers that held it run
\* their blur handlers. The log keeps whether the widget was visible.
Hide ==
    LET r == HideCalls(xterm)
        m == FocusMoved(domFocus, "terminal", overrideCopySelection)
    IN
    /\ widget
    /\ findWidgetVisible' = r.visible
    /\ domFocus' = "terminal"
    /\ findWidgetFocused' = m.widgetFocused
    /\ findInputFocused' = m.inputFocused
    /\ last' = Did("hide", <<findWidgetVisible>>, r.out \o m.out)
    /\ UNCHANGED <<clipVars, handleVars, widget, inputValue, searches, buttons, mouse,
                   once>>


\* ----------------------------------------------------- mouse events
MiddleClickBehaviors == {"default", "paste"}
RightClickBehaviors == {"default", "copyPaste", "paste"}
\* A mouse event with the configuration and the platform it meets: the
\* button (0 left, 1 middle, 2 right), the shift key, the two behaviour
\* settings, BrowserFeatures.clipboard.readText and isMacintosh. Fields that
\* the switch does not read for a button keep one value.
MouseEvents ==
    { [button |-> 0, shiftKey |-> FALSE, middle |-> "default", right |-> "default",
       readText |-> TRUE, mac |-> FALSE] }
    \cup { [button |-> 1, shiftKey |-> FALSE, middle |-> b, right |-> "default",
            readText |-> TRUE, mac |-> FALSE] : b \in MiddleClickBehaviors }
    \cup { [button |-> 2, shiftKey |-> sh, middle |-> "default", right |-> b,
            readText |-> rt, mac |-> mac] :
              sh \in BOOLEAN, b \in RightClickBehaviors, rt \in BOOLEAN, mac \in BOOLEAN }

\* handleMouseEvent(event): the branch the switch takes.
MouseBranch(e, hasSelection) ==
    IF e.button = 1
    THEN IF e.middle = "paste" THEN "paste" ELSE "none"
    ELSE IF e.button = 2
    THEN IF e.shiftKey THEN "none"
         ELSE IF e.right # "copyPaste" /\ e.right # "paste" THEN "none"
         ELSE IF e.right = "copyPaste" /\ hasSelection THEN "copy"
         ELSE IF e.readText THEN "paste"
         ELSE "notify"
    ELSE "none"

\* The right-click branches that reach the end of case 2 set the timer that
\* clears the selection on a Mac.
MouseSetsTimer(e) ==
    e.button = 2 /\ ~e.shiftKey /\ e.right \in {"copyPaste", "paste"} /\ e.mac

\* handleMouseEvent(event). paste() is called and not awaited; the copy is
\* `await this.copySelection()`, which calls xterm.copySelection without
\* awaiting it, so the selection is cleared while the clipboard write that
\* call started is still on its way.
HandleMouseEvent(e) ==
    LET branch == MouseBranch(e, HasSelection(selection)) IN
    /\ branch = "paste" => Len(pastes) < MaxPastes
    /\ mouse' = [copying |-> mouse.copying \/ (branch = "copy" /\ xterm),
                 clearing |-> mouse.clearing \/ MouseSetsTimer(e)]
    /\ pastes' = IF branch = "paste" THEN Append(pastes, NewPaste("paste")) ELSE pastes
    /\ IF branch = "copy"
       THEN FireSelectionChanged(NoSelection, overrideCopySelection, "mouse", <<e>>,
                (IF xterm THEN <<Copy("text", selection.text)>> ELSE <<>>)
                    \o <<ClearSelection>>)
            /\ once' = 0
       ELSE /\ last' = Did("mouse", <<e>>,
                           IF branch = "paste" THEN <<ReadText(ReadChannel("paste"))>>
                           ELSE IF branch = "notify" THEN <<Notification>>
                           ELSE <<>>)
            /\ UNCHANGED <<selection, previousSelection, previousSelectionPosition, once>>
    /\ UNCHANGED <<xterm, overrideCopySelection, copyOnSelection, handleVars, findVars,
                   findWidgetVisible, buttons>>

\* The clipboard write started by a right-click copy completes.
CopyCompleted ==
    /\ mouse.copying
    /\ mouse' = [mouse EXCEPT !.copying = FALSE]
    /\ last' = Did("copyCompleted", <<>>, <<>>)
    /\ UNCHANGED <<clipVars, handleVars, findVars, findWidgetVisible, buttons, once>>

\* The timer a right-click set on a Mac fires: the selection is cleared.
MacTimerFires ==
    /\ mouse.clearing
    /\ mouse' = [mouse EXCEPT !.clearing = FALSE]
    /\ FireSelectionChanged(NoSelection, overrideCopySelection, "timeout", <<>>,
                            <<ClearSelection>>)
    /\ once' = 0
    /\ UNCHANGED <<xterm, overrideCopySelection, copyOnSelection, pastes, handleVars,
                   findVars, findWidgetVisible, buttons>>

\* ------------------------------------------------------ specification
Init ==
    /\ xterm = FALSE
    /\ overrideCopySelection = "unset"
    /\ previousSelection = Undefined
    /\ previousSelectionPosition = Undefined
    /\ copyOnSelection \in BOOLEAN
    /\ selection = NoSelection
    /\ pastes = <<>>
    /\ called = [h \in HandleIds |-> FALSE]
    /\ extHandles = {}
    /\ widget = FALSE
    /\ widgetDisposable = 0
    /\ findInputFocused = FALSE
    /\ findWidgetFocused = FALSE
    /\ domFocus = "terminal"
    /\ inputValue = ""
    /\ searches = <<>>
    /\ findWidgetVisible = FALSE
    /\ buttons = FALSE
    /\ once = 0
    /\ mouse = [copying |-> FALSE, clearing |-> FALSE]
    /\ last = Did("init", <<>>, <<>>)

\* Everything the two components can do.
Next ==
    \/ XtermReady
    \/ \E b \in BOOLEAN : SetCopyOnSelection(b)
    \/ \E sel \in Selections \cup {NoSelection} : SelectionChanged(sel)
    \/ \E asHtml \in BOOLEAN : CopySelection(asHtml)
    \/ \E v \in {"true", "false"} : ExtOverride(v)
    \/ \E h \in HandleIds : ExtDispose(h)
    \/ \E h \in HandleIds : ExtDrop(h)
    \/ Paste
    \/ PasteSelection
    \/ \E i \in 1..MaxPastes : ReadTextResolved(i)
    \/ \E i \in 1..MaxPastes, g \in GuardResults : GuardResolved(i, g)
    \/ CreateWidget
    \/ \E to \in {"terminal", "findInput", "findButton"} : MoveFocus(to)
    \/ \E q \in Queries : InputChanged(q)
    \/ \E found \in BOOLEAN, r \in BufferRanges : SearchRuns(found, r)
    \/ \E previous \in BOOLEAN, update \in BOOLEAN : Find(previous, update)
    \/ Show
    \/ Reveal
    \/ Hide
    \/ \E e \in MouseEvents : HandleMouseEvent(e)
    \/ CopyCompleted
    \/ MacTimerFires

Spec == Init /\ [][Next]_vars

\* Pasting, with every operation that sets or clears the override. The
\* terminal's selection stays out of it: the searches that typing issues
\* find no match, and each has run before the next keystroke.
NextPaste ==
    \/ XtermReady
    \/ \E v \in {"true", "false"} : ExtOverride(v)
    \/ \E h \in HandleIds : ExtDispose(h)
    \/ \E h \in HandleIds : ExtDrop(h)
    \/ Paste
    \/ PasteSelection
    \/ \E i \in 1..MaxPastes : ReadTextResolved(i)
    \/ \E i \in 1..MaxPastes, g \in GuardResults : GuardResolved(i, g)
    \/ CreateWidget
    \/ \E to \in {"terminal", "findInput", "findButton"} : MoveFocus(to)
    \/ \E q \in Queries : searches = <<>> /\ InputChanged(q)
    \/ \E r \in BufferRanges : SearchRuns(FALSE, r)

\* No action of NextPaste reads the copy-on-selection setting: it starts enabled.
InitPaste ==
    /\ Init
    /\ copyOnSelection = TRUE

SpecPaste == InitPaste /\ [][NextPaste]_vars

\* The find widget with the selection handler and the other callers of the
\* override, without pastes. The search a keystroke issues has run before
\* the next keystroke.
NextFind ==
    \/ XtermReady
    \/ \E b \in BOOLEAN : SetCopyOnSelection(b)
    \/ \E sel \in Selections \cup {NoSelection} : SelectionChanged(sel)
    \/ \E v \in {"true", "false"} : ExtOverride(v)
    \/ \E h \in HandleIds : ExtDispose(h)
    \/ \E h \in HandleIds : ExtDrop(h)
    \/ CreateWidget
    \/ \E to \in {"terminal", "findInput", "findButton"} : MoveFocus(to)
    \/ \E q \in Queries : searches = <<>> /\ InputChanged(q)
    \/ \E found \in BOOLEAN, r \in BufferRanges : SearchRuns(found, r)

SpecFind == Init /\ [][NextFind]_vars

\* The find widget's life cycle and its searches: several searches can be
\* outstanding at once.
NextSearch ==
    \/ XtermReady
    \/ \E sel \in Selections \cup {NoSelection} : SelectionChanged(sel)
    \/ CreateWidget
    \/ \E to \in {"terminal", "findInput", "findButton"} : MoveFocus(to)
    \/ \E q \in Queries : InputChanged(q)
    \/ \E found \in BOOLEAN, r \in BufferRanges : SearchRuns(found, r)
    \/ \E previous \in BOOLEAN, update \in BOOLEAN : Find(previous, update)
    \/ Show
    \/ Reveal
    \/ Hide

\* Copy on selection is disabled: the selection handler copies nothing and
\* keeps no snapshot, the searches are what is looked at.
InitSearch ==
    /\ Init
    /\ copyOnSelection = FALSE

SpecSearch == InitSearch /\ [][NextSearch]_vars

\* Mouse events on the terminal, with the pastes and the copies they start.
NextMouse ==
    \/ XtermReady
    \/ \E sel \in Selections \cup {NoSelection} : SelectionChanged(sel)
    \/ \E i \in 1..MaxPastes : ReadTextResolved(i)
    \/ \E i \in 1..MaxPastes, g \in GuardResults : GuardResolved(i, g)
    \/ \E e \in MouseEvents : HandleMouseEvent(e)
    \/ CopyCompleted
    \/ MacTimerFires

SpecMouse == Init /\ [][NextMouse]_vars

\* Everything that copies, pastes or touches the override, with the
\* selection handler: explicit copies, the right click that copies, pastes,
\* other holders. The setting keeps the value it starts with.
NextCopy ==
    \/ XtermReady
    \/ \E sel \in Selections \cup {NoSelection} : SelectionChanged(sel)
    \/ \E asHtml \in BOOLEAN : CopySelection(asHtml)
    \/ \E v \in {"true", "false"} : ExtOverride(v)
    \/ \E h \in HandleIds : ExtDispose(h)
    \/ \E h \in HandleIds : ExtDrop(h)
    \/ Paste
    \/ PasteSelection
    \/ \E i \in 1..MaxPastes : ReadTextResolved(i)
    \/ \E i \in 1..MaxPastes, g \in {<<"true">>, <<"false">>} : GuardResolved(i, g)
    \/ \E e \in {m \in MouseEvents : /\ m.button = 2 /\ m.right = "copyPaste"
                                      /\ ~m.shiftKey /\ m.readText /\ ~m.mac} :
          HandleMouseEvent(e)
    \/ CopyCompleted

SpecCopy == Init /\ [][NextCopy]_vars

\* One find widget and the clipboard contribution, and no other caller of
\* the override: focus, query changes with their searches, selection
\* changes, paste() and pasteSelection().
NextWidget ==
    \/ XtermReady
    \/ \E sel \in Selections \cup {NoSelection} : SelectionChanged(sel)
    \/ CreateWidget
    \/ \E to \in {"terminal", "findInput", "findButton"} : MoveFocus(to)
    \/ \E q \in Queries : searches = <<>> /\ InputChanged(q)
    \/ \E found \in BOOLEAN, r \in BufferRanges : SearchRuns(found, r)
    \/ Paste
    \/ PasteSelection
    \/ \E i \in 1..MaxPastes : ReadTextResolved(i)
    \/ \E i \in 1..MaxPastes, g \in {<<"true">>, <<"false">>} : GuardResolved(i, g)

SpecWidget == InitPaste /\ [][NextWidget]_vars

\* The time before xtermReady: the commands, the find widget and the other
\* callers of the override while no terminal is attached.
NextDetached ==
    \/ \E b \in BOOLEAN : SetCopyOnSelection(b)
    \/ CopySelection(FALSE)
    \/ \E v \in {"true", "false"} : ExtOverride(v)
    \/ \E h \in HandleIds : ExtDispose(h)
    \/ \E h \in HandleIds : ExtDrop(h)
    \/ Paste
    \/ PasteSelection
    \/ \E i \in 1..MaxPastes : ReadTextResolved(i)
    \/ CreateWidget
    \/ \E to \in {"terminal", "findInput", "findButton"} : MoveFocus(to)
    \/ \E q \in Queries : InputChanged(q)
    \/ \E previous \in BOOLEAN, update \in BOOLEAN : Find(previous, update)
    \/ Show
    \/ Reveal
    \/ Hide

SpecDetached == Init /\ [][NextDetached]_vars


\* ------------------------------------------------------------ claims
\* The effects of the last handler whose first field is `kind`.
Effects(kind) == SelectSeq(last.out, LAMBDA e : e[1] = kind)

\* C1: a call of overrideCopyOnSelection made while the lock is set (to true
\* or to false) fails with an error and leaves the lock's value as it was;
\* this holds for each caller: another component, pasteSelection(), the find
\* widget's focus handler and its onWillPaste listener.
C1_AcquireWhileHeldFails ==
    [][ overrideCopySelection # "unset" =>
          /\ (last'.op = "overrideCopyOnSelection" \/
              (last'.op = "paste" /\ last'.arg = <<"pasteSelection">>)) =>
                 (last'.out = <<Throw>> /\ overrideCopySelection' = overrideCopySelection)
          /\ (last'.op = "focus" /\ widget /\ ~InWidget(domFocus) /\ InWidget(domFocus')) =>
                 (last'.out = <<Throw>> /\ overrideCopySelection' = overrideCopySelection)
          /\ (last'.op = "pasteDone" /\ widget /\ last'.arg[4] \in {"true", "object"}) =>
                 (Effects("listenerError")' = <<ListenerError>>
                  /\ overrideCopySelection' = overrideCopySelection)
      ]_vars

\* A call with value false has failed while the holder's value is true, and
\* the lock still holds true.
C1_Witness ==
    /\ last = Did("overrideCopyOnSelection", <<"false">>, <<Throw>>)
    /\ overrideCopySelection = "true"


\* Handles that something still refers to.
Referenced == extHandles \cup (IF widgetDisposable = 0 THEN {} ELSE {widgetDisposable})

\* C2: the first dispose() of a handle resets the lock to unset, a later
\* dispose() of the same handle changes nothing, whoever calls it (another
\* component, or the find widget on an input change); and a handle whose
\* function has not run yet exists only while the lock is set, so no old
\* handle can clear a lock acquired after it.
C2_HandleReleasesOnce ==
    /\ [](overrideCopySelection = "unset" => \A h \in Referenced : called[h])
    /\ [][ /\ (last'.op = "dispose" /\ last'.arg = <<"first">>) =>
                 overrideCopySelection' = "unset"
           /\ (last'.op = "dispose" /\ last'.arg = <<"again">>) =>
                 UNCHANGED <<clipVars, handleVars, findVars>>
           /\ (last'.op = "inputChanged" /\ xterm /\ widgetDisposable # 0) =>
                 IF called[widgetDisposable]
                 THEN overrideCopySelection' = overrideCopySelection
                 ELSE overrideCopySelection' = "unset"
         ]_vars

\* An already disposed handle has been disposed of again while another
\* caller holds the lock, and the lock is still held.
C2_Witness ==
    /\ last = Did("dispose", <<"again">>, <<>>)
    /\ overrideCopySelection = "false"

\* C3: a selection-changed event delivered while the override holds false
\* performs no copy and leaves the last-copied snapshot as it was, whatever
\* the setting and the selection.
C3_NoCopyWhileOverrideFalse ==
    [][ (last'.op = "selectionChanged" /\ overrideCopySelection = "false") =>
            /\ last'.out = <<>>
            /\ UNCHANGED <<previousSelection, previousSelectionPosition>>
      ]_vars

\* Copy on selection is enabled, the override holds false, and an event
\* with a selection that differs from the snapshot has copied nothing.
C3_Witness ==
    /\ last.op = "selectionChanged"
    /\ last.out = <<>>
    /\ overrideCopySelection = "false"
    /\ copyOnSelection
    /\ HasSelection(selection)
    /\ GetSelection(selection) # previousSelection

\* C4: with copy on selection enabled and the override not false, an event
\* whose selection text and range equal the snapshot copies nothing; an event
\* with a selection that differs from the snapshot in text or in range
\* makes one copy, of that selection, and the snapshot becomes that selection.
C4_CopyOncePerSelection ==
    [][ (last'.op = "selectionChanged" /\ copyOnSelection
         /\ overrideCopySelection # "false") =>
            IF /\ GetSelection(selection') = previousSelection
               /\ GetSelectionPosition(selection') = previousSelectionPosition
            THEN /\ last'.out = <<>>
                 /\ UNCHANGED <<previousSelection, previousSelectionPosition>>
            ELSE HasSelection(selection') =>
                 /\ last'.out = <<Copy("text", selection'.text)>>
                 /\ previousSelection' = GetSelection(selection')
                 /\ previousSelectionPosition' = GetSelectionPosition(selection')
      ]_vars

\* The selection-changed event has fired again for the selection that was
\* copied last, and nothing was copied.
C4_Witness ==
    /\ last.op = "selectionChanged"
    /\ last.out = <<>>
    /\ copyOnSelection
    /\ overrideCopySelection # "false"
    /\ HasSelection(selection)
    /\ GetSelection(selection) = previousSelection
    /\ GetSelectionPosition(selection) = previousSelectionPosition


\* C5: when the paste guard answers false, _paste ends there: no focus call,
\* no onWillPaste, no write, no onDidPaste, and nothing but the list of
\* in-flight pastes changes (focus, override, context keys, selection); the
\* steps of paste() before the guard's answer change nothing either.
C5_RejectedPasteIsNoOp ==
    [][ /\ (last'.op = "pasteDone" /\ last'.arg[4] = "false") =>
               /\ last'.out = <<>>
               /\ Len(pastes') = Len(pastes) - 1
               /\ UNCHANGED <<xterm, overrideCopySelection, previousSelection,
                              previousSelectionPosition, copyOnSelection, selection,
                              handleVars, findVars, uiVars>>
        \* the steps of paste() before the guard's answer: the read is all they do
        /\ (last'.op = "pasteGuard" \/ last' = Did("paste", <<"paste">>, last'.out)) =>
               /\ Effects("focus")' = <<>> /\ Effects("onWillPaste")' = <<>>
               /\ Effects("paste")' = <<>> /\ Effects("onDidPaste")' = <<>>
               /\ UNCHANGED <<xterm, overrideCopySelection, previousSelection,
                              previousSelectionPosition, copyOnSelection, selection,
                              handleVars, findVars, uiVars>>
      ]_vars

\* A paste() whose guard answered false has ended while the focus is in the
\* find input.
C5_Witness ==
    /\ last = Did("pasteDone", <<"paste", "default", ClipboardContent("default"), "false">>, <<>>)
    /\ domFocus = "findInput"

\* C6: a paste the guard lets through fires onWillPaste once, writes once and
\* fires onDidPaste once, all three with the same text: the guard's
\* modifiedText when it answered with an object, the text read from the
\* clipboard when it answered true.
C6_PastedTextIsGuardText ==
    (last.op = "pasteDone" /\ last.arg[4] \in {"true", "object"}) =>
        LET text == IF last.arg[4] = "object" THEN ModifiedText ELSE last.arg[3] IN
        /\ Effects("onWillPaste") = <<WillPaste(text)>>
        /\ Effects("paste") = <<Write(text)>>
        /\ Effects("onDidPaste") = <<DidPaste(text)>>

\* A paste() whose guard answered {modifiedText} has written the modified text.
C6_Witness ==
    /\ last.op = "pasteDone"
    /\ last.arg = <<"paste", "default", ClipboardContent("default"), "object">>
    /\ Effects("paste") = <<Write(ModifiedText)>>


\* C7: a pasteSelection() call that has got its override (the request fails
\* when the lock is already set, C1) reads the clipboard's selection channel,
\* not the default one, and the override holds false in every state from the
\* call's first step to its last: while it waits for the clipboard, while it
\* waits for the guard, and when _paste has ended.
C7_PasteSelectionReadsSelectionUnderLock ==
    /\ \A i \in 1..Len(pastes) :
          pastes[i].kind = "pasteSelection" =>
             /\ pastes[i].channel = "selection"
             /\ pastes[i].pc = "guard" => pastes[i].text = ClipboardContent("selection")
             /\ overrideCopySelection = "false"
    /\ (last.op = "paste" /\ last.arg = <<"pasteSelection">> /\ last.out # <<Throw>>) =>
          /\ last.out = <<ReadText("selection")>>
          /\ overrideCopySelection = "false"
    /\ (last.op \in {"pasteGuard", "pasteDone"} /\ last.arg[1] = "pasteSelection") =>
          /\ last.arg[2] = "selection"
          /\ last.arg[3] = ClipboardContent("selection")
          /\ Effects("paste") \in {<<>>, <<Write(ModifiedText)>>,
                                   <<Write(ClipboardContent("selection"))>>}
          /\ overrideCopySelection = "false"

\* A pasteSelection() has written the selection channel's text and the
\* override is false as it ends.
C7_Witness ==
    /\ last.op = "pasteDone"
    /\ last.arg = <<"pasteSelection", "selection", ClipboardContent("selection"), "true">>
    /\ Effects("paste") = <<Write(ClipboardContent("selection"))>>
    /\ overrideCopySelection = "false"

\* C8 (the claim as stated): when a pasteSelection() call has ended (pasted,
\* rejected by the guard, or without a terminal) the override is unset again.
C8_OverrideUnsetAfterPasteSelection ==
    (last.op = "pasteDone" /\ last.arg[1] = "pasteSelection") =>
        overrideCopySelection = "unset"

\* C9 (the claim as stated): whenever the find input gains focus while the
\* override is unset, the override becomes false and the widget's field holds
\* the handle of that acquisition, one whose function has not run.
C9_InputFocusAcquiresOverride ==
    [][ (last'.op = "focus" /\ widget /\ domFocus # "findInput" /\ domFocus' = "findInput"
         /\ overrideCopySelection = "unset") =>
            /\ overrideCopySelection' = "false"
            /\ widgetDisposable' \in HandleIds
            /\ ~called'[widgetDisposable']
            /\ findInputFocused'
      ]_vars

\* C10 (the claim as stated): from the focus that acquired the override to
\* the blur (the span in which findWidgetFocused is set) the override is
\* false, and no selection-changed event of the search engine copies.
C10_OverrideHeldWhileFocused ==
    /\ findWidgetFocused => overrideCopySelection = "false"
    /\ (findWidgetFocused /\ last.op = "selectionChanged" /\ last.arg = <<"search">>) =>
          last.out = <<>>

\* C11 (the claim as stated): when the find widget's node loses focus while
\* the widget holds a handle whose function has not run (it holds the
\* override), the override is unset after the blur.
C11_BlurReleasesOverride ==
    [][ (last'.op = "focus" /\ widget /\ InWidget(domFocus) /\ ~InWidget(domFocus')
         /\ widgetDisposable # 0 /\ ~called[widgetDisposable]) =>
            overrideCopySelection' = "unset"
      ]_vars

\* C12 (the claim as stated): when the find widget's node gains focus while
\* the override is already set, the focus handler raises no error, leaves the
\* override's value as it was and sets findWidgetFocused.
C12_FocusWhileHeldIsQuiet ==
    [][ (last'.op = "focus" /\ widget /\ ~InWidget(domFocus) /\ InWidget(domFocus')
         /\ overrideCopySelection # "unset") =>
            /\ last'.out = <<>>
            /\ overrideCopySelection' = overrideCopySelection
            /\ findWidgetFocused'
      ]_vars

\* C13 (the claim as stated): a paste() that goes through while the override
\* is unset (so the find widget's onWillPaste listener acquires it) leaves
\* the override unset once onDidPaste has fired and the widget is not focused.
C13_WillPasteOverrideReleased ==
    [][ (last'.op = "pasteDone" /\ last'.arg[1] = "paste"
         /\ last'.arg[4] \in {"true", "object"}
         /\ widget /\ overrideCopySelection = "unset" /\ ~findWidgetFocused') =>
            overrideCopySelection' = "unset"
      ]_vars

\* C14 (the claim as stated): before xtermReady, every step of paste(),
\* pasteSelection(), copySelection() and find() raises no error, fires no
\* event, writes nothing and issues no search (reading the clipboard is all
\* it may do), and leaves the override and the snapshot as they were.
C14_DetachedOperationsAreNoOps ==
    [][ (~xterm /\ last'.op \in {"paste", "pasteDone", "copySelection", "find"}) =>
            /\ \A i \in 1..Len(last'.out) : last'.out[i][1] = "readText"
            /\ UNCHANGED <<overrideCopySelection, previousSelection,
                           previousSelectionPosition, searches>>
      ]_vars

\* C15: find(previous, update) with a terminal attached makes one call on
\* the search engine, findPrevious (with the incremental option it was given)
\* or findNext, with the input's current value, also when that value is the
\* empty string; the search is handed to the engine.
C15_FindAlwaysSearches ==
    [][ (last'.op = "find" /\ xterm) =>
            /\ last'.arg[3] = inputValue
            /\ last'.out = << IF last'.arg[1]
                              THEN FindPrevious(inputValue, last'.arg[2])
                              ELSE FindNext(inputValue) >>
            /\ Len(searches') = Len(searches) + 1
            /\ searches'[Len(searches')].query = inputValue
      ]_vars

\* find(true, true) has issued an incremental findPrevious with the empty
\* query, after the input was emptied.
C15_Witness ==
    /\ xterm
    /\ last = Did("find", <<TRUE, TRUE, "">>, <<FindPrevious("", TRUE)>>)
    /\ searches # <<>>
    /\ searches[Len(searches)].query = ""

\* C16 (the claim as stated): when a search resolves whose query is no
\* longer the input's value (the query has changed since it was issued), its
\* result is not applied to the navigation buttons.
C16_StaleResultIgnored ==
    [][ (last'.op = "selectionChanged" /\ last'.arg = <<"search">>
         /\ Head(searches).query # inputValue) =>
            buttons' = buttons
      ]_vars

\* C17: hide(), visible or not, focused or not, leaves findWidgetVisible
\* false and the focus in the terminal, and calls focus() on the terminal;
\* with a terminal attached it then calls clearSearchDecorations once, without
\* one it makes no call on the search engine; it raises no error either way.
C17_HideResetsWidget ==
    [][ last'.op = "hide" =>
            /\ ~findWidgetVisible'
            /\ domFocus' = "terminal"
            /\ SubSeq(last'.out, 1, 1) = <<Focus>>
            /\ Effects("clearSearchDecorations")' = IF xterm THEN <<ClearAll>> ELSE <<>>
            /\ xterm => last'.out[2] = ClearAll
            /\ ~xterm => last'.out = <<Focus>>
            /\ Effects("throw")' = <<>>
      ]_vars

\* A visible widget whose input had the focus has been hidden with a terminal
\* attached: all decorations were cleared, then the blur handler ran.
C17_Witness ==
    /\ last = Did("hide", <<TRUE>>, <<Focus, ClearAll, ClearActive>>)
    /\ xterm
    /\ ~findWidgetVisible
    /\ domFocus = "terminal"

\* C18 (the claim as stated): a mouse event starts at most one of a copy and
\* a paste. A middle click pastes exactly when middleClickBehavior is
\* 'paste'. A right click without shift, with 'copyPaste' and a selection,
\* copies the selection and then clears it, the clear coming only once the
\* copy has completed, and does not paste. A right click without shift with
\* 'paste', or with 'copyPaste' and no selection, pastes and does not copy
\* (where the platform can read the clipboard; elsewhere the code shows a
\* notice). A right click with shift or with another behaviour does neither.
C18_MouseCopiesOrPastes ==
    [][ last'.op = "mouse" =>
          LET e == last'.arg[1]
              pasted == /\ Len(pastes') = Len(pastes) + 1
                        /\ Effects("readText")' = <<ReadText("default")>>
              copied == Effects("copySelection")' # <<>>
              rightOn == e.button = 2 /\ ~e.shiftKey
          IN
          /\ ~(pasted /\ copied)
          /\ e.button = 1 => (~copied /\ (pasted <=> e.middle = "paste"))
          /\ (rightOn /\ e.right = "copyPaste" /\ HasSelection(selection)) =>
                /\ last'.out = <<Copy("text", selection.text), ClearSelection>>
                /\ selection' = NoSelection
                /\ ~pasted
                /\ ~mouse'.copying
          /\ (rightOn /\ e.readText
              /\ (e.right = "paste" \/ (e.right = "copyPaste" /\ ~HasSelection(selection)))) =>
                (pasted /\ ~copied)
          /\ (e.button = 2 /\ (e.shiftKey \/ e.right \notin {"copyPaste", "paste"})) =>
                (~pasted /\ ~copied)
          /\ e.button = 0 => (~pasted /\ ~copied)
      ]_vars

\* C19 (the claim as stated): while the override holds true, a
\* selection-changed event with a selection that differs from the snapshot
\* copies that selection even when the copy-on-selection setting is disabled.
C19_OverrideTrueForcesCopy ==
    [][ (last'.op = "selectionChanged" /\ overrideCopySelection = "true"
         /\ ~copyOnSelection /\ HasSelection(selection')
         /\ ~(/\ GetSelection(selection') = previousSelection
              /\ GetSelectionPosition(selection') = previousSelectionPosition)) =>
            last'.out = <<Copy("text", selection'.text)>>
      ]_vars

\* The focus, onWillPaste, write and onDidPaste steps among the effects of
\* the last handler, in the order they were made.
PasteSteps ==
    SelectSeq(last.out, LAMBDA e : e[1] \in {"focus", "onWillPaste", "paste", "onDidPaste"})

\* C20: a paste the guard lets through makes its steps in the order focus,
\* onWillPaste, write, onDidPaste, once each and with its own text, in one
\* stretch of the event loop: the call leaves the list of calls in flight and
\* the others stay suspended where they were. The steps of a call before the
\* guard's answer (the clipboard read, the guard request) and a rejected or
\* terminal-less call make none of these steps, so the steps of two pastes
\* are never interleaved.
C20_PasteStepsInOrder ==
    [][ /\ (last'.op = "pasteDone" /\ last'.arg[4] \in {"true", "object"}) =>
              LET text == IF last'.arg[4] = "object" THEN ModifiedText ELSE last'.arg[3] IN
              /\ PasteSteps' = <<Focus, WillPaste(text), Write(text), DidPaste(text)>>
              /\ \E i \in 1..Len(pastes) :
                    /\ pastes[i].kind = last'.arg[1]
                    /\ pastes[i].pc = "guard"
                    /\ pastes[i].text = last'.arg[3]
                    /\ pastes' = RemoveAt(pastes, i)
        /\ (\/ last'.op \in {"paste", "pasteGuard"}
            \/ (last'.op = "pasteDone" /\ last'.arg[4] \in {"false", "noTerminal"})) =>
              PasteSteps' = <<>>
      ]_vars

\* A paste() has gone through all four steps while a pasteSelection() call
\* made before or after it is still waiting for the guard.
C20_Witness ==
    /\ last.op = "pasteDone"
    /\ last.arg = <<"paste", "default", ClipboardContent("default"), "true">>
    /\ PasteSteps = <<Focus, WillPaste(ClipboardContent("default")),
                      Write(ClipboardContent("default")),
                      DidPaste(ClipboardContent("default"))>>
    /\ Len(pastes) = 1
    /\ pastes[1].kind = "pasteSelection"
    /\ pastes[1].pc = "guard"

\* C21: the last-copied snapshot changes only in the selection-changed
\* handler, on the path that copies: the setting is on, the override is not
\* false, there is a selection, the snapshot becomes that selection and the
\* copy of it is made in the same handler run. An explicit copySelection, a
\* right-click copy, paste(), pasteFromSelectionClipboard, acquiring and
\* releasing the override, and an event the handler skips leave it as it was.
C21_SnapshotSetOnlyByAutoCopy ==
    [][ /\ (<<previousSelection, previousSelectionPosition>>' #
                <<previousSelection, previousSelectionPosition>>) =>
              /\ last'.op = "selectionChanged"
              /\ copyOnSelection
              /\ overrideCopySelection # "false"
              /\ HasSelection(selection')
              /\ previousSelection' = GetSelection(selection')
              /\ previousSelectionPosition' = GetSelectionPosition(selection')
              /\ last'.out = <<Copy("text", selection'.text)>>
        /\ (last'.op \in {"copySelection", "mouse", "copyCompleted", "paste", "pasteGuard",
                          "pasteDone", "overrideCopyOnSelection", "dispose", "drop"}) =>
              UNCHANGED <<previousSelection, previousSelectionPosition>>
        /\ (last'.op = "selectionChanged" /\ last'.out = <<>>) =>
              UNCHANGED <<previousSelection, previousSelectionPosition>>
      ]_vars

\* A right click has copied a selection that was never copied on selection:
\* the snapshot is still undefined.
C21_Witness ==
    /\ last.op = "mouse"
    /\ \E t \in Texts : last.out[1] = Copy("text", t)
    /\ previousSelection = Undefined
    /\ previousSelectionPosition = Undefined

\* C22 as stated: every search that resolves registers one one-shot
\* listener, so one call of clearActiveSearchDecoration is made at the next
\* selection-changed event.
C22_OneListenerPerSearch ==
    [][ (last'.op = "selectionChanged") =>
            /\ last'.fired <= 1
            /\ (last'.arg = <<"search">>) => once' = 1
      ]_vars

\* C22, amended: when a search resolves, _findNextWithEvent or
\* _findPreviousWithEvent registers one one-shot listener, and the
\* continuation of reveal() registers a second one. Every listener registered
\* runs at the next selection-changed event and is gone after it; nothing is
\* registered when the search is issued, and find(), _onInputChanged() and
\* reveal() return with the search still pending.
C22_ListenersRunOnceAfterResolution ==
    [][ /\ (last'.op = "selectionChanged") =>
              /\ last'.fired = once
              /\ (last'.arg = <<"user">>) => once' = 0
              /\ (last'.arg = <<"search">>) =>
                    /\ searches # <<>>
                    /\ once' = IF Head(searches).then = "updateButtonsAndListen"
                               THEN 2 ELSE 1
        /\ (last'.op # "selectionChanged") =>
              /\ last'.fired = 0
              /\ once' = once
        /\ (last'.op \in {"find", "inputChanged", "reveal"} /\ last'.out # <<>>) =>
              /\ Len(searches') = Len(searches) + 1
              /\ SubSeq(searches', 1, Len(searches)) = searches
      ]_vars

\* The search reveal() issued has resolved, and the selection change after
\* it has run the two listeners registered at the resolution; none is left.
C22_Witness ==
    /\ last.op = "selectionChanged"
    /\ last.arg = <<"user">>
    /\ last.fired = 2
    /\ once = 0

\* C23: the three context keys are kept apart. findInputFocused changes only
\* when focus enters or leaves the find input, findWidgetFocused only when
\* focus enters or leaves the widget, findWidgetVisible only in show(),
\* reveal() and hide(). After the input loses focus findInputFocused is false,
\* after the widget loses focus findWidgetFocused is false, after hide()
\* findWidgetVisible is false; show() and reveal() set findWidgetVisible and
\* leave the two focus keys alone.
C23_ContextKeysIndependent ==
    [][ LET inputFocus == widget /\ domFocus # "findInput" /\ domFocus' = "findInput"
            inputBlur == widget /\ domFocus = "findInput" /\ domFocus' # "findInput"
            widgetFocus == widget /\ ~InWidget(domFocus) /\ InWidget(domFocus')
            widgetBlur == widget /\ InWidget(domFocus) /\ ~InWidget(domFocus')
        IN
        /\ (findInputFocused' # findInputFocused) => (inputFocus \/ inputBlur)
        /\ inputFocus => findInputFocused'
        /\ inputBlur => ~findInputFocused'
        /\ (findWidgetFocused' # findWidgetFocused) => (widgetFocus \/ widgetBlur)
        /\ (widgetFocus /\ last'.out = <<>>) => findWidgetFocused'
        /\ widgetBlur => ~findWidgetFocused'
        /\ (findWidgetVisible' # findWidgetVisible) => last'.op \in {"show", "reveal", "hide"}
        /\ (last'.op \in {"show", "reveal"}) =>
              /\ findWidgetVisible'
              /\ UNCHANGED <<findInputFocused, findWidgetFocused>>
        /\ (last'.op = "hide") => ~findWidgetVisible'
      ]_vars

\* Focus has gone from the find input to another control of the visible
\* widget: the input's key is reset, the widget's key and the visibility
\* key stay set.
C23_Witness ==
    /\ last.op = "focus"
    /\ last.arg = <<"findInput", "findButton">>
    /\ ~findInputFocused
    /\ findWidgetFocused
    /\ findWidgetVisible

\* C24: reveal() searches for the terminal's selection when there is one
\* without a line break, else for the input's prior value. With a terminal
\* and a non-empty query it issues one incremental findPrevious for it, else
\* no search; it disables the navigation buttons and sets findWidgetVisible.
\* When the search it issued resolves, the buttons are enabled exactly when
\* a match was found.
C24_RevealSearchesSelectionOrInput ==
    [][ /\ (last'.op = "reveal") =>
              LET q == IF HasSelection(selection) /\ selection.text \notin MultiLineTexts
                       THEN selection.text ELSE inputValue
              IN
              /\ last'.arg = <<q>>
              /\ inputValue' = q
              /\ IF xterm /\ q # ""
                 THEN /\ last'.out = <<FindPrevious(q, TRUE)>>
                      /\ Len(searches') = Len(searches) + 1
                      /\ SubSeq(searches', 1, Len(searches)) = searches
                      /\ searches'[Len(searches')].query = q
                      /\ searches'[Len(searches')].incremental
                 ELSE /\ last'.out = <<>>
                      /\ searches' = searches
              /\ ~buttons'
              /\ findWidgetVisible'
        /\ (/\ last'.op = "selectionChanged"
            /\ last'.arg = <<"search">>
            /\ searches # <<>>
            /\ Head(searches).then = "updateButtonsAndListen") =>
              buttons' = HasSelection(selection')
      ]_vars

\* reveal() has met a selection of two lines: it searched for the text the
\* input already held.
C24_Witness ==
    /\ last.op = "reveal"
    /\ HasSelection(selection)
    /\ selection.text \in MultiLineTexts
    /\ last.arg = <<"hello">>
    /\ last.out = <<FindPrevious("hello", TRUE)>>
    /\ ~buttons
    /\ findWidgetVisible

\* C25 (the claim as stated): with one find widget and no other caller of
\* the override, no sequence of focus changes, query changes, pastes and
\* selection changes calls overrideCopyOnSelection while the override is
\* set: no call of it fails, in the widget's focus handler, in
\* pasteSelection() or in the widget's onWillPaste listener.
C25_NoAcquireWhileHeld ==
    /\ Effects("throw") = <<>>
    /\ Effects("listenerError") = <<>>

\* C26: once set, the last-copied snapshot is never cleared: a selection
\* change to no selection and every acquisition and release of the override
\* leave it as it was. A selection-changed event whose selection has the
\* snapshot's text and range copies nothing and keeps the snapshot, whatever
\* happened since that selection was copied (the selection cleared, the
\* clipboard written by an explicit copy, the override taken and released).
C26_SnapshotKeptUntilNextAutoCopy ==
    [][ /\ (previousSelection # Undefined) =>
              /\ previousSelection' # Undefined
              /\ previousSelectionPosition' # Undefined
        /\ (selection' # selection /\ ~HasSelection(selection')) =>
              /\ UNCHANGED <<previousSelection, previousSelectionPosition>>
              /\ Copy("text", selection'.text) \notin {last'.out[i] : i \in 1..Len(last'.out)}
        /\ (overrideCopySelection' # overrideCopySelection) =>
              UNCHANGED <<previousSelection, previousSelectionPosition>>
        /\ (/\ last'.op = "selectionChanged"
            /\ previousSelection # Undefined
            /\ GetSelection(selection') = previousSelection
            /\ GetSelectionPosition(selection') = previousSelectionPosition) =>
              /\ last'.out = <<>>
              /\ UNCHANGED <<previousSelection, previousSelectionPosition>>
      ]_vars

\* The selection that was copied has been cleared with copy on selection
\* enabled and the override not held: the snapshot still holds it.
C26_Witness ==
    /\ last.op = "selectionChanged"
    /\ selection = NoSelection
    /\ copyOnSelection
    /\ overrideCopySelection = "unset"
    /\ previousSelection # Undefined
    /\ previousSelectionPosition # Undefined

====
